---- MODULE Spec2Model ----
(***************************************************************************)
(* The recording / transcription pipeline of sobottaai (src-tauri/src):    *)
(* RecordingState and start_recording / stop_recording with the capture    *)
(* thread, the device callback and the level meter                         *)
(* (commands/recording.rs), the hotkey handlers (system/hotkey.rs,         *)
(* commands/settings.rs), the signal processor (audio/processing.rs) and   *)
(* the STT dispatcher (commands/transcription.rs).                         *)
(*                                                                         *)
(* Samples are fixed-point integers in thousandths (0.95 is 950); f32      *)
(* arithmetic is modelled by integer arithmetic rounding toward zero.      *)
(* Threads interleave at the granularity of their lock acquisitions and    *)
(* channel operations; a sleep gives no ordering.                          *)
(***************************************************************************)
EXTENDS Integers, Sequences, FiniteSets, TLC

\* ------------------------------------------------------------------ bounds
\* capture sessions a run may allocate (start_recording calls past the check)
MaxStarts == 2
\* device callback invocations per stream
MaxChunks == 1
\* transcribe requests in flight at once
MaxRequests == 2
\* engine constructions after which no further delete_model is issued
MaxLoads == 2
\* sessions stored after which no further file is imported
MaxImports == 1
\* raw samples of a captured session handed to the signal processor
MaxRawLen == 3

\* ------------------------------------------------------- program constants
TargetRate == 16000
TargetPeak == 950
MaxGain == 30
SilencePeak == 1
RmsThreshold == 10
\* bits of the significand of an f64
MantissaBits == 53

\* ------------------------------------------------------ signal processor
Abs(x) == IF x < 0 THEN -x ELSE x

\* division rounding toward zero
Quot(a, b) == IF a >= 0 THEN a \div b ELSE -((-a) \div b)

RECURSIVE SumSeq(_)
SumSeq(s) == IF s = <<>> THEN 0 ELSE Head(s) + SumSeq(Tail(s))

RECURSIVE PeakOf(_)
PeakOf(s) ==
    IF s = <<>> THEN 0
    ELSE LET p == PeakOf(Tail(s)) a == Abs(Head(s)) IN IF a > p THEN a ELSE p

\* chunks_exact panics on a chunk size of zero
to_mono_panics(smp, channels) == channels # 1 /\ channels = 0

to_mono_keeps_partial_frame(smp, channels) ==
    IF channels = 1 THEN smp
    ELSE [i \in 1..((Len(smp) + channels - 1) \div channels) |->
            LET last == IF i * channels < Len(smp) THEN i * channels ELSE Len(smp)
            IN Quot(SumSeq(SubSeq(smp, (i - 1) * channels + 1, last)), channels)]

to_mono(smp, channels) ==
    IF channels = 1 THEN smp
    ELSE [i \in 1..(Len(smp) \div channels) |->
            Quot(SumSeq(SubSeq(smp, (i - 1) * channels + 1, i * channels)), channels)]

\* f64 arithmetic of the output length: a significand of MantissaBits bits is
\* held in two limbs <<hi, lo>> of 27 bits. An intermediate value is bound as
\* the one element of a set, so that it is computed once
LimbBase == 2^27

BigDbl(x, bit) ==
    LET lo == 2 * x[2] + bit
    IN <<2 * x[1] + lo \div LimbBase, lo % LimbBase>>
BigGeq(x, y) == x[1] > y[1] \/ (x[1] = y[1] /\ x[2] >= y[2])
BigSub(x, y) ==
    IF x[2] >= y[2] THEN <<x[1] - y[1], x[2] - y[2]>>
    ELSE <<x[1] - y[1] - 1, x[2] + LimbBase - y[2]>>
BigInc(x) == IF x[2] + 1 = LimbBase THEN <<x[1] + 1, 0>> ELSE <<x[1], x[2] + 1>>

\* the significand of x moved up by k bits, unless that would pass its
\* leading bit
NormalizeStep(x, k) ==
    IF x.m[1] >= 2^(26 - k) THEN x
    ELSE [m |-> <<x.m[1] * 2^k + x.m[2] \div 2^(27 - k), (x.m[2] % 2^(27 - k)) * 2^k>>,
          e |-> x.e - k]

\* the moves that bring any leading bit into place
NormalizeShifts == <<26, 16, 8, 4, 2, 1>>

RECURSIVE Normalize(_, _)
Normalize(i, x) ==
    IF i > Len(NormalizeShifts) THEN x
    ELSE CHOOSE res \in {Normalize(i + 1, moved) : moved \in {NormalizeStep(x, NormalizeShifts[i])}} : TRUE

\* an integer 1 <= n < 2^27 as an f64: significand n * 2^k in [2^52, 2^53), and
\* the exponent of its leading bit
ToF64(n) == Normalize(1, [m |-> <<0, n>>, e |-> MantissaBits - 1])

\* one bit of the long division by s.d, unless the quotient s.q has 53 bits
DivStep(s) ==
    LET r2 == BigDbl(s.rem, 0)
    IN IF s.q[1] >= LimbBase \div 4 THEN s
       ELSE IF BigGeq(r2, s.d)
               THEN [q |-> BigDbl(s.q, 1), rem |-> BigSub(r2, s.d), d |-> s.d]
               ELSE [q |-> BigDbl(s.q, 0), rem |-> r2, d |-> s.d]

\* n times DivStep, by halves
RECURSIVE DivBits(_, _)
DivBits(n, s) ==
    IF n = 1 THEN DivStep(s)
    ELSE CHOOSE res \in {DivBits(n - n \div 2, mid) : mid \in {DivBits(n \div 2, s)}} : TRUE

\* the quotient s of the long division rounded to nearest, ties to even, with
\* exponent e
RoundQuotient(s, e) ==
    LET r2 == BigDbl(s.rem, 0)
        up == IF r2 = s.d THEN s.q[2] % 2 = 1 ELSE BigGeq(r2, s.d)
    IN IF ~up THEN [m |-> s.q, e |-> e]
       ELSE IF BigInc(s.q)[1] = LimbBase \div 2 THEN [m |-> <<LimbBase \div 4, 0>>, e |-> e + 1]
       ELSE [m |-> BigInc(s.q), e |-> e]

\* x / y in f64
F64DivValues(xy) ==
    LET x == xy[1]
        y == xy[2]
        shifted == ~BigGeq(x.m, y.m)
        num == IF shifted THEN BigDbl(x.m, 0) ELSE x.m
        e == x.e - y.e - (IF shifted THEN 1 ELSE 0)
        start == [q |-> <<0, 1>>, rem |-> BigSub(num, y.m), d |-> y.m]
    IN CHOOSE res \in {RoundQuotient(s, e) : s \in {DivBits(MantissaBits - 1, start)}} : TRUE

F64Div(x, y) == CHOOSE res \in {F64DivValues(xy) : xy \in {<<x, y>>}} : TRUE

\* an f64 below 2^31 as usize: the fraction is dropped
F64ToUsizeValue(x) ==
    LET sh == MantissaBits - 1 - x.e
    IN IF sh >= MantissaBits THEN 0
       ELSE IF sh >= 27 THEN x.m[1] \div 2^(sh - 27)
       ELSE x.m[1] * 2^(27 - sh) + x.m[2] \div 2^sh

F64ToUsize(x) == CHOOSE res \in {F64ToUsizeValue(v) : v \in {x}} : TRUE

\* (len as f64 / (source_rate as f64 / target_rate as f64)) as usize: both
\* divisions round; 0.0 / ratio is 0 or NaN and len / infinity is 0, which
\* cast to 0 (source_rate = 0 with samples: resample_panics)
F64OutputLen(len, source_rate, target_rate) ==
    F64ToUsize(F64Div(ToF64(len), F64Div(ToF64(source_rate), ToF64(target_rate))))

\* F64OutputLen of short inputs at the common sample rates, computed once
\* (merged with the empty function, which makes it a table of values)
CommonRates == {8000, 16000, 32000, 44100, 48000}
ShortInputs == (1..8) \X CommonRates \X CommonRates
OutputLens == [c \in ShortInputs |-> F64OutputLen(c[1], c[2], c[3])] @@ <<>>

resample_output_len(len, source_rate, target_rate) ==
    IF len = 0 \/ source_rate = 0 \/ target_rate = 0 THEN 0
    ELSE IF <<len, source_rate, target_rate>> \in ShortInputs
            THEN OutputLens[<<len, source_rate, target_rate>>]
    ELSE F64OutputLen(len, source_rate, target_rate)

\* len / 0.0 is infinite and casts to usize::MAX, and Vec::with_capacity panics
\* on a capacity beyond isize::MAX bytes
resample_panics(smp, source_rate, target_rate) ==
    source_rate # target_rate /\ source_rate = 0 /\ Len(smp) > 0

resample_interpolates_past_end(smp, source_rate, target_rate) ==
    IF source_rate = target_rate THEN smp
    ELSE LET output_len == resample_output_len(Len(smp), source_rate, target_rate)
         IN [k \in 1..output_len |->
               LET pos  == (k - 1) * source_rate
                   idx  == pos \div target_rate
                   frac == pos % target_rate
                   next == IF idx + 1 < Len(smp) THEN smp[idx + 2] ELSE 0
               IN IF idx < Len(smp)
                     THEN Quot(smp[idx + 1] * (target_rate - frac) + next * frac,
                               target_rate)
                  ELSE 0]

\* the positions i * ratio are taken exactly: their rounding moves a sample by
\* less than the resolution of the samples
resample(smp, source_rate, target_rate) ==
    IF source_rate = target_rate THEN smp
    ELSE LET output_len == resample_output_len(Len(smp), source_rate, target_rate)
         IN [k \in 1..output_len |->
               LET pos  == (k - 1) * source_rate
                   idx  == pos \div target_rate
                   frac == pos % target_rate
               IN IF idx + 1 < Len(smp)
                     THEN Quot(smp[idx + 1] * (target_rate - frac) + smp[idx + 2] * frac,
                               target_rate)
                  ELSE IF idx < Len(smp) THEN smp[idx + 1]
                  ELSE 0]

normalize_uncapped(smp) ==
    LET max == PeakOf(smp)
    IN IF max < SilencePeak THEN smp
       ELSE [i \in 1..Len(smp) |-> Quot(smp[i] * TargetPeak, max)]

normalize(smp) ==
    LET max == PeakOf(smp)
    IN IF max < SilencePeak THEN smp
       ELSE IF TargetPeak > MaxGain * max
               THEN [i \in 1..Len(smp) |-> smp[i] * MaxGain]
       ELSE [i \in 1..Len(smp) |-> Quot(smp[i] * TargetPeak, max)]

preprocess_normalize_first(smp, channels, sample_rate) ==
    resample(to_mono(normalize(smp), channels), sample_rate, TargetRate)

\* mono, then 16 kHz, then normalize
preprocess(smp, channels, sample_rate) ==
    CHOOSE res \in {normalize(resampled) :
                      resampled \in {resample(mono, sample_rate, TargetRate) :
                                       mono \in {to_mono(raw, channels) : raw \in {smp}}}} : TRUE

\* preprocess panics where to_mono or resample does
preprocess_panics(smp, channels, sample_rate) ==
    \/ to_mono_panics(smp, channels)
    \/ resample_panics(to_mono(smp, channels), sample_rate, TargetRate)

RECURSIVE SumSq(_)
SumSq(s) == IF s = <<>> THEN 0 ELSE Head(s) * Head(s) + SumSq(Tail(s))

\* integer square root
RECURSIVE Bisect(_, _, _)
Bisect(x, lo, hi) ==
    IF hi - lo <= 1 THEN lo
    ELSE LET mid == (lo + hi) \div 2
         IN IF mid * mid <= x THEN Bisect(x, mid, hi) ELSE Bisect(x, lo, mid)

ISqrt(x) == Bisect(x, 0, 1024)

rms_energy(smp) ==
    IF smp = <<>> THEN 0 ELSE ISqrt(SumSq(smp) \div Len(smp))

\* duration of sample_count samples at 16 kHz, in ms, truncated
duration_of(sample_count) == (sample_count * 1000) \div TargetRate

\* ------------------------------------------------------------ environment
\* (sample rate, channels) the input device may report
DeviceConfigs == {<<16000, 1>>, <<32000, 2>>}

\* ways the capture thread's initialisation fails with a report
InitErrors == {"No input device available", "Failed to get input config",
               "Unsupported sample format", "Failed to build stream",
               "Failed to start stream"}

\* the i-th sample the device delivers on a stream
Sample(i) == (IF i % 2 = 1 THEN 1 ELSE -1) * (100 * i + 100)

\* the k-th chunk handed to the callback (two samples)
Chunk(k) == <<Sample(2 * k - 1), Sample(2 * k)>>

Callers == {"hk", "ui"}
BufIds == 1..MaxStarts

NoBuffer == [samples |-> 0, sample_rate |-> 0, channels |-> 0]
\* err: the error message, in parts (format! arguments)
NoResult == [tag |-> "none", err |-> <<>>, session_id |-> 0, duration_ms |-> 0,
             sample_count |-> 0]
Err(msg) == [tag |-> "Err", err |-> msg, session_id |-> 0, duration_ms |-> 0,
             sample_count |-> 0]
OkUnit == [tag |-> "Ok", err |-> <<>>, session_id |-> 0, duration_ms |-> 0,
           sample_count |-> 0]
OkStop(sid, n) == [tag |-> "Ok", err |-> <<>>, session_id |-> sid,
                   duration_ms |-> duration_of(n), sample_count |-> n]

VARIABLES
    \* RecordingState
    stop_signal,    \* session whose stop sender is stored, 0 = None
    buffer,         \* the stored AudioBuffer, NoBuffer = None
    level_stop,     \* session whose level-meter stop sender is stored, 0 = None
    sessions,       \* Session Store: session id -> samples
    \* the shared sample vectors, capture threads, handshake channels, meters
    samples,        \* [BufIds -> Seq(Int)]
    capture,        \* [BufIds -> "init" | "playing", or "none": no such thread]
    init_rx,        \* [BufIds -> handshake message, EmptyMsg = none]
    meter,          \* [BufIds -> "running" | "signalled", or "none": no such thread]
    nextBuf,        \* next sample-vector / capture-thread id
    nextSid,        \* next session id (Uuid::new_v4)
    delivered,      \* [BufIds -> chunks the device has handed to the callback]
    device,         \* (sample rate, channels) of the default input device
    \* the threads that call start_recording / stop_recording
    pc,             \* [Callers -> position]
    op,             \* [Callers -> "none" | "start" | "stop"]
    call_buf,       \* [Callers -> the call's buffer id, 0 = none]
    result,         \* [Callers -> result of the call]
    emitted,        \* [Callers -> notifications emitted by the current handling]
    \* hotkey
    mode,           \* HotkeyModeState.mode
    handler,        \* which closure the shortcut manager holds
    key,            \* the key event the hotkey thread is handling
    \* history
    took,           \* live sample vectors stop_recording has taken
    live_ok,        \* sessions started with Ok whose stop sender no stop has taken
    stopped_early,  \* sessions whose stop sender a stop took before start returned
    \* SttManager, the model files on disk, the transcribe requests
    engines,        \* [LocalModels -> cached engine instance, 0 = not cached]
    transcription_lock, \* request holding the transcription mutex, 0 = free
    downloaded,     \* the files in the model directories: <<model id, file name>>
    nextEngine,     \* next engine instance id
    deleting,       \* models whose delete_model has evicted, files not yet removed
    task            \* [Tasks -> transcribe request]

recVars == <<stop_signal, buffer, level_stop, sessions, samples, capture, init_rx,
             meter, nextBuf, nextSid, delivered, device>>
callVars == <<pc, op, call_buf, result, emitted>>
hotkeyVars == <<mode, handler, key>>
histVars == <<took, live_ok, stopped_early>>
sttVars == <<engines, transcription_lock, downloaded, nextEngine, deleting, task>>
appVars == <<recVars, callVars, hotkeyVars, histVars>>
vars == <<appVars, sttVars>>

\* --------------------------------------------------------------- messages
EmptyMsg == [tag |-> "empty", err |-> "", sample_rate |-> 0, channels |-> 0]
OkMsg(cfg) == [tag |-> "Ok", err |-> "", sample_rate |-> cfg[1], channels |-> cfg[2]]
ErrMsg(e) == [tag |-> "Err", err |-> e, sample_rate |-> 0, channels |-> 0]
\* the handshake sender was dropped without a message
Disconnected == [tag |-> "Disconnected", err |-> "", sample_rate |-> 0, channels |-> 0]

\* state, mode, rec, handler, action: the event being handled, the mode and
\* is_recording() the closure read, the closure, and what it calls;
\* after_toggle_start: the event handled before was a key-down in toggle mode
\* whose start_recording returned Ok
NoKey == [state |-> "none", mode |-> "", rec |-> FALSE, handler |-> "",
          action |-> "none", after_toggle_start |-> FALSE]

InitRecording ==
    /\ stop_signal = 0
    /\ buffer = NoBuffer
    /\ level_stop = 0
    /\ samples = [b \in BufIds |-> <<>>]
    /\ capture = [b \in BufIds |-> "none"]
    /\ init_rx = [b \in BufIds |-> EmptyMsg]
    /\ meter = [b \in BufIds |-> "none"]
    /\ nextBuf = 1
    /\ nextSid = 1
    /\ delivered = [b \in BufIds |-> 0]
    /\ device \in DeviceConfigs
    /\ pc = [c \in Callers |-> "idle"]
    /\ op = [c \in Callers |-> "none"]
    /\ call_buf = [c \in Callers |-> 0]
    /\ result = [c \in Callers |-> NoResult]
    /\ emitted = [c \in Callers |-> {}]
    /\ mode = "push-to-talk"
    /\ handler = "register_shortcut"
    /\ key = NoKey
    /\ took = {}
    /\ live_ok = {}
    /\ stopped_early = {}

\* the model catalogue: id -> engine (one model of each engine kind)
full_catalog ==
    [id \in {"whisper-tiny", "parakeet-tdt-0.6b-v2", "cloud-openai-whisper",
             "cloud-groq-whisper"} |->
        CASE id = "whisper-tiny" -> "Whisper"
          [] id = "parakeet-tdt-0.6b-v2" -> "Parakeet"
          [] id = "cloud-openai-whisper" -> "CloudOpenAI"
          [] OTHER -> "CloudGroq"]

LocalModels == {id \in DOMAIN full_catalog : full_catalog[id] \in {"Whisper", "Parakeet"}}

\* model ids a request may name: the catalogue and one id that is not in it
ModelIds == DOMAIN full_catalog \cup {"no-such-model"}

\* engine_for_model, "" = None
engine_for_model(model_id) ==
    IF model_id \in DOMAIN full_catalog THEN full_catalog[model_id] ELSE ""

\* the files a catalogue entry requires (ModelInfo.files), none for a remote model
ModelFiles ==
    [id \in DOMAIN full_catalog |->
        CASE id = "whisper-tiny" -> <<"ggml-tiny.bin">>
          [] id = "parakeet-tdt-0.6b-v2" ->
                <<"encoder-epoch-86-avg-1.int8.onnx", "decoder-epoch-86-avg-1.int8.onnx",
                  "joiner-epoch-86-avg-1.int8.onnx", "tokens.txt">>
          [] OTHER -> <<>>]

\* the catalogue entry of a model id
ModelInfo(model_id) ==
    [id |-> model_id, engine |-> full_catalog[model_id], files |-> ModelFiles[model_id]]

\* a local model whose file list is empty
EmptyFilesModel == [id |-> "empty-test", engine |-> "Whisper", files |-> <<>>]

\* all files of the models in set, as on disk after complete downloads
FilesOf(set) ==
    UNION {{<<m, ModelFiles[m][i]>> : i \in DOMAIN ModelFiles[m]} : m \in set}

Tasks == 1..MaxRequests

NoTResult == [tag |-> "none", err |-> <<>>, text |-> "", segments |-> <<>>]
TErr(msg) == [tag |-> "Err", err |-> msg, text |-> "", segments |-> <<>>]
\* a transcript comes as one segment, an empty text with none
TOk(text) == [tag |-> "Ok", err |-> <<>>, text |-> text,
              segments |-> IF text = "" THEN <<>> ELSE <<text>>]

NoTask == [pc |-> "idle", model_id |-> "", audio |-> <<>>, engine |-> 0,
           result |-> NoTResult]

\* a recording of one faint click in silence
FaintClick == <<1, 0, 0, 0, 0, 0, 0, 0, 0, 0>>

\* a Session Store as recordings leave it: a voiced session, a session of
\* digital silence, an empty one, and a faint one (amplified by normalize,
\* still below the silence threshold)
StoredSessions ==
    1 :> preprocess(Chunk(1), 1, TargetRate) @@ 2 :> <<0, 0>> @@ 3 :> <<>>
      @@ 4 :> preprocess(FaintClick, 1, TargetRate)

\* session ids a request may name: the stored ones and one that is not stored
SessionIds == DOMAIN StoredSessions \cup {5}

InitSttManager ==
    /\ engines = [m \in LocalModels |-> 0]
    /\ transcription_lock = 0
    /\ nextEngine = 1
    /\ deleting = {}
    /\ task = [t \in Tasks |-> NoTask]

Init ==
    /\ InitRecording
    /\ sessions = <<>>
    /\ InitSttManager
    /\ downloaded = {}

\* the application with recordings stored and some of the local models downloaded
InitTranscribe ==
    /\ InitRecording
    /\ sessions = StoredSessions
    /\ InitSttManager
    /\ downloaded \in {FilesOf(set) : set \in SUBSET LocalModels}

\* RecordingState::is_recording
is_recording == stop_signal # 0

\* a call returns to its caller
Return(c, r) ==
    /\ result' = [result EXCEPT ![c] = r]
    /\ call_buf' = [call_buf EXCEPT ![c] = 0]
    /\ pc' = [pc EXCEPT ![c] = "returned"]

\* a call moves on to its next step
Goto(c, p) ==
    /\ pc' = [pc EXCEPT ![c] = p]
    /\ UNCHANGED <<result, call_buf>>

\* a sample vector lives as long as a clone of its Arc does: the capture thread's
\* callback, the stored AudioBuffer, the level meter, a start_recording call
Held(x, cap, buf, mtr, cb) ==
    \/ cap[x] \in {"init", "playing"}
    \/ buf.samples = x
    \/ mtr[x] \in {"running", "signalled"}
    \/ \E c \in Callers : cb[c] = x

\* the sample vectors once the Arcs nobody holds are dropped
Dropped(smp, cap, buf, mtr, cb) ==
    [x \in BufIds |-> IF Held(x, cap, buf, mtr, cb) THEN smp[x] ELSE <<>>]

StillHeld(set, cap, buf, mtr, cb) == {x \in set : Held(x, cap, buf, mtr, cb)}

\* start_recording calls that may still allocate a session
StartsPending == Cardinality({c \in Callers : pc[c] \in {"s_check", "s_set"}})
CanStart == nextBuf + StartsPending <= MaxStarts

\* ------------------------------------------------------- start_recording
StartCheckNoGuard(c) ==
    /\ pc[c] = "s_check"
    /\ Goto(c, "s_set")
    /\ UNCHANGED <<recVars, op, emitted, hotkeyVars, took, live_ok, stopped_early, sttVars>>

\* the double-start check
StartCheck(c) ==
    /\ pc[c] = "s_check"
    /\ IF stop_signal # 0
          THEN Return(c, Err(<<"Recording already in progress">>))
          ELSE Goto(c, "s_set")
    /\ UNCHANGED <<recVars, op, emitted, hotkeyVars, took, live_ok, stopped_early, sttVars>>

\* new shared buffer, new stop channel stored in the state, capture thread spawned
StartSpawn(c) ==
    /\ pc[c] = "s_set"
    /\ stop_signal' = nextBuf
    /\ capture' = [capture EXCEPT ![nextBuf] = "init"]
    /\ call_buf' = [call_buf EXCEPT ![c] = nextBuf]
    /\ nextBuf' = nextBuf + 1
    /\ pc' = [pc EXCEPT ![c] = "s_wait"]
    /\ UNCHANGED <<buffer, level_stop, sessions, samples, init_rx, meter, nextSid,
                   delivered, device, op, result, emitted, hotkeyVars, took, live_ok,
                   stopped_early, sttVars>>

\* the error start_recording makes of a failed handshake
InitError(msg) ==
    IF msg.tag = "Disconnected"
       THEN Err(<<"Capture thread died before initialization">>)
       ELSE Err(<<"Audio init failed", msg.err>>)

StartInitFailedKeepsSignal(c) ==
    /\ pc[c] = "s_wait"
    /\ init_rx[call_buf[c]].tag \in {"Err", "Disconnected"}
    /\ result' = [result EXCEPT ![c] = InitError(init_rx[call_buf[c]])]
    /\ init_rx' = [init_rx EXCEPT ![call_buf[c]] = EmptyMsg]
    /\ pc' = [pc EXCEPT ![c] = "s_clean"]
    /\ UNCHANGED <<stop_signal, buffer, level_stop, sessions, samples, capture, meter,
                   device, nextBuf, nextSid, delivered, op, call_buf, emitted, hotkeyVars,
                   took, live_ok, stopped_early, sttVars>>

\* the handshake reports a failure (the error is kept in result until the call
\* returns): the stop sender is cleared
StartInitFailed(c) ==
    /\ pc[c] = "s_wait"
    /\ init_rx[call_buf[c]].tag \in {"Err", "Disconnected"}
    /\ result' = [result EXCEPT ![c] = InitError(init_rx[call_buf[c]])]
    /\ init_rx' = [init_rx EXCEPT ![call_buf[c]] = EmptyMsg]
    /\ stop_signal' = 0
    /\ pc' = [pc EXCEPT ![c] = "s_clean"]
    /\ UNCHANGED <<buffer, level_stop, sessions, samples, capture, meter, device, nextBuf,
                   nextSid, delivered, op, call_buf, emitted, hotkeyVars, took,
                   live_ok, sttVars>>
    /\ stopped_early' = stopped_early \ {call_buf[c]}

\* ... then the level-meter sender, and the error is returned
StartCleanup(c) ==
    /\ pc[c] = "s_clean"
    /\ level_stop' = 0
    /\ Return(c, result[c])
    /\ UNCHANGED <<stop_signal, buffer, sessions, samples, capture, init_rx, meter,
                   device, nextBuf, nextSid, delivered, op, emitted, hotkeyVars, took,
                   live_ok, stopped_early, sttVars>>

\* the handshake reports the device's configuration: the buffer is stored with it
\* and recording-started is emitted
StartStoreBuffer(c) ==
    /\ pc[c] = "s_wait"
    /\ init_rx[call_buf[c]].tag = "Ok"
    /\ buffer' = [samples |-> call_buf[c],
                  sample_rate |-> init_rx[call_buf[c]].sample_rate,
                  channels |-> init_rx[call_buf[c]].channels]
    /\ init_rx' = [init_rx EXCEPT ![call_buf[c]] = EmptyMsg]
    /\ emitted' = [emitted EXCEPT ![c] = @ \cup {"recording-started"}]
    /\ Goto(c, "s_meter")
    /\ samples' = Dropped(samples, capture, buffer', meter, call_buf)
    /\ took' = StillHeld(took, capture, buffer', meter, call_buf)
    /\ UNCHANGED <<stop_signal, level_stop, sessions, capture, meter, device, nextBuf,
                   nextSid, delivered, op, hotkeyVars, live_ok, stopped_early, sttVars>>

\* the level meter is spawned on the call's buffer and its stop sender stored
StartSpawnMeter(c) ==
    /\ pc[c] = "s_meter"
    /\ level_stop' = call_buf[c]
    /\ meter' = [meter EXCEPT ![call_buf[c]] = "running"]
    /\ IF call_buf[c] \in stopped_early
          THEN stopped_early' = stopped_early \ {call_buf[c]} /\ UNCHANGED live_ok
          ELSE live_ok' = live_ok \cup {call_buf[c]} /\ UNCHANGED stopped_early
    /\ Return(c, OkUnit)
    /\ UNCHANGED <<stop_signal, buffer, sessions, samples, capture, init_rx, device, nextBuf,
                   nextSid, delivered, op, emitted, hotkeyVars, took, sttVars>>

\* --------------------------------------------------------- capture thread
CaptureInitFail(b) ==
    /\ capture[b] = "init"
    /\ \E e \in InitErrors : init_rx' = [init_rx EXCEPT ![b] = ErrMsg(e)]
    /\ capture' = [capture EXCEPT ![b] = "none"]
    /\ UNCHANGED <<stop_signal, buffer, level_stop, sessions, samples, meter, device, nextBuf,
                   nextSid, delivered, callVars, hotkeyVars, histVars, sttVars>>

\* the thread panics before it reports: the handshake sender is dropped
CaptureInitDie(b) ==
    /\ capture[b] = "init"
    /\ init_rx' = [init_rx EXCEPT ![b] = Disconnected]
    /\ capture' = [capture EXCEPT ![b] = "none"]
    /\ UNCHANGED <<stop_signal, buffer, level_stop, sessions, samples, meter, device, nextBuf,
                   nextSid, delivered, callVars, hotkeyVars, histVars, sttVars>>

\* stream built and playing, success reported
CapturePlay(b) ==
    /\ capture[b] = "init"
    /\ init_rx' = [init_rx EXCEPT ![b] = OkMsg(device)]
    /\ capture' = [capture EXCEPT ![b] = "playing"]
    /\ UNCHANGED <<stop_signal, buffer, level_stop, sessions, samples, meter, device, nextBuf,
                   nextSid, delivered, callVars, hotkeyVars, histVars, sttVars>>

CallbackAppendsSamplewise(b) ==
    /\ capture[b] = "playing"
    /\ delivered[b] < MaxChunks
    /\ LET chunk == Chunk(delivered[b] + 1)
           part == Len(samples[b]) % Len(chunk)
       IN /\ samples' = [samples EXCEPT ![b] = Append(@, chunk[part + 1])]
          /\ delivered' = [delivered EXCEPT ![b] =
                              IF part + 1 = Len(chunk) THEN @ + 1 ELSE @]
    /\ UNCHANGED <<stop_signal, buffer, level_stop, sessions, capture, init_rx, meter,
                   device, nextBuf, nextSid, callVars, hotkeyVars, histVars, sttVars>>

\* the device callback appends one chunk under the samples lock
Callback(b) ==
    /\ capture[b] = "playing"
    /\ delivered[b] < MaxChunks
    /\ delivered' = [delivered EXCEPT ![b] = @ + 1]
    /\ samples' = [samples EXCEPT ![b] = @ \o Chunk(delivered[b] + 1)]
    /\ UNCHANGED <<stop_signal, buffer, level_stop, sessions, capture, init_rx, meter,
                   device, nextBuf, nextSid, callVars, hotkeyVars, histVars, sttVars>>

CaptureStopWhenIdle(b) ==
    /\ capture[b] = "playing"
    /\ stop_signal = 0
    /\ capture' = [capture EXCEPT ![b] = "none"]
    /\ delivered' = [delivered EXCEPT ![b] = 0]
    /\ samples' = Dropped(samples, capture', buffer, meter, call_buf)
    /\ took' = StillHeld(took, capture', buffer, meter, call_buf)
    /\ UNCHANGED <<stop_signal, buffer, level_stop, sessions, init_rx, meter,
                   device, nextBuf, nextSid, callVars, hotkeyVars, live_ok,
                   stopped_early, sttVars>>

\* stop_rx.recv() returns (signal sent or sender dropped): the stream is dropped
CaptureStop(b) ==
    /\ capture[b] = "playing"
    /\ stop_signal # b
    /\ capture' = [capture EXCEPT ![b] = "none"]
    /\ delivered' = [delivered EXCEPT ![b] = 0]
    /\ samples' = Dropped(samples, capture', buffer, meter, call_buf)
    /\ took' = StillHeld(took, capture', buffer, meter, call_buf)
    /\ UNCHANGED <<stop_signal, buffer, level_stop, sessions, init_rx, meter,
                   device, nextBuf, nextSid, callVars, hotkeyVars, live_ok,
                   stopped_early, sttVars>>

\* ------------------------------------------------------------ level meter
\* one tick: reads the trailing window of the buffer, changes nothing
MeterTick(b) ==
    /\ meter[b] = "running"
    /\ UNCHANGED vars

MeterStop(b) ==
    /\ meter[b] = "signalled"
    /\ meter' = [meter EXCEPT ![b] = "none"]
    /\ samples' = Dropped(samples, capture, buffer, meter', call_buf)
    /\ took' = StillHeld(took, capture, buffer, meter', call_buf)
    /\ UNCHANGED <<stop_signal, buffer, level_stop, sessions, capture, init_rx,
                   device, nextBuf, nextSid, delivered, callVars, hotkeyVars, live_ok,
                   stopped_early, sttVars>>

\* -------------------------------------------------------- stop_recording
StopLevelWaitsForMeter(c) ==
    /\ pc[c] = "t_level"
    /\ level_stop # 0 => meter[level_stop] = "none"
    /\ IF level_stop # 0
          THEN /\ meter' = [meter EXCEPT ![level_stop] =
                               IF @ = "running" THEN "signalled" ELSE @]
               /\ level_stop' = 0
          ELSE UNCHANGED <<meter, level_stop>>
    /\ Goto(c, "t_signal")
    /\ UNCHANGED <<stop_signal, buffer, sessions, samples, capture, init_rx, device, nextBuf,
                   nextSid, delivered, op, emitted, hotkeyVars, took, live_ok,
                   stopped_early, sttVars>>

\* the level-meter sender is taken and signalled
StopLevel(c) ==
    /\ pc[c] = "t_level"
    /\ IF level_stop # 0
          THEN /\ meter' = [meter EXCEPT ![level_stop] =
                               IF @ = "running" THEN "signalled" ELSE @]
               /\ level_stop' = 0
          ELSE UNCHANGED <<meter, level_stop>>
    /\ Goto(c, "t_signal")
    /\ UNCHANGED <<stop_signal, buffer, sessions, samples, capture, init_rx, device, nextBuf,
                   nextSid, delivered, op, emitted, hotkeyVars, took, live_ok,
                   stopped_early, sttVars>>

StopSignalIgnoresNone(c) ==
    /\ pc[c] = "t_signal"
    /\ stop_signal' = 0
    /\ IF stop_signal \in live_ok
          THEN live_ok' = live_ok \ {stop_signal} /\ UNCHANGED stopped_early
          ELSE stopped_early' = stopped_early \cup ({stop_signal} \ {0})
               /\ UNCHANGED live_ok
    /\ Goto(c, "t_take")
    /\ UNCHANGED <<buffer, level_stop, sessions, samples, capture, init_rx, meter,
                   device, nextBuf, nextSid, delivered, op, emitted, hotkeyVars, took, sttVars>>

\* the stop sender is taken and signalled, or there is none
StopSignal(c) ==
    /\ pc[c] = "t_signal"
    /\ IF stop_signal = 0
          THEN /\ Return(c, Err(<<"No active recording">>))
               /\ UNCHANGED <<stop_signal, live_ok, stopped_early>>
          ELSE /\ stop_signal' = 0
               /\ IF stop_signal \in live_ok
                     THEN live_ok' = live_ok \ {stop_signal} /\ UNCHANGED stopped_early
                     ELSE stopped_early' = stopped_early \cup {stop_signal}
                          /\ UNCHANGED live_ok
               /\ Goto(c, "t_take")
    /\ UNCHANGED <<buffer, level_stop, sessions, samples, capture, init_rx, meter,
                   device, nextBuf, nextSid, delivered, op, emitted, hotkeyVars, took, sttVars>>

ProcessedWithoutPreprocess(raw, buf) == raw

\* what stop_recording stores for the raw samples of a buffer
Processed(raw, buf) == preprocess(raw, buf.channels, buf.sample_rate)

NeverEmpty(raw) == FALSE

\* raw_samples.is_empty()
is_empty(raw) == raw = <<>>

\* the Session Store with one more entry
Insert(store, sid, smp) ==
    [s \in DOMAIN store \cup {sid} |-> IF s = sid THEN smp ELSE store[s]]

StopTakeEmitsBeforeInsert(c) ==
    /\ pc[c] = "t_take"
    /\ IF buffer = NoBuffer
          THEN /\ Return(c, Err(<<"No audio buffer available">>))
               /\ UNCHANGED <<buffer, samples, sessions, nextSid, emitted, took>>
          ELSE LET b == buffer.samples
                   raw == samples[b]
                   processed == Processed(raw, buffer)
               IN /\ buffer' = NoBuffer
                  /\ samples' = [samples EXCEPT ![b] = <<>>]
                  /\ took' = StillHeld(took \cup {b}, capture, buffer', meter, call_buf)
                  /\ IF is_empty(raw)
                        THEN /\ Return(c, Err(<<"No audio data captured">>))
                             /\ UNCHANGED <<sessions, nextSid, emitted>>
                        ELSE /\ UNCHANGED sessions
                             /\ nextSid' = nextSid + 1
                             /\ emitted' = [emitted EXCEPT ![c] =
                                              @ \cup {"recording-stopped"}]
                             /\ Return(c, OkStop(nextSid, Len(processed)))
    /\ UNCHANGED <<stop_signal, level_stop, capture, init_rx, meter, device, nextBuf,
                   delivered, op, hotkeyVars, live_ok, stopped_early, sttVars>>

\* after the grace sleep: the buffer is taken, preprocessed and stored, and
\* recording-stopped is emitted
StopTake(c) ==
    /\ pc[c] = "t_take"
    /\ IF buffer = NoBuffer
          THEN /\ Return(c, Err(<<"No audio buffer available">>))
               /\ UNCHANGED <<buffer, samples, sessions, nextSid, emitted, took>>
          ELSE LET b == buffer.samples
                   raw == samples[b]
                   processed == Processed(raw, buffer)
               IN /\ buffer' = NoBuffer
                  /\ samples' = [samples EXCEPT ![b] = <<>>]
                  /\ took' = StillHeld(took \cup {b}, capture, buffer', meter, call_buf)
                  /\ IF is_empty(raw)
                        THEN /\ Return(c, Err(<<"No audio data captured">>))
                             /\ UNCHANGED <<sessions, nextSid, emitted>>
                        ELSE /\ sessions' = Insert(sessions, nextSid, processed)
                             /\ nextSid' = nextSid + 1
                             /\ emitted' = [emitted EXCEPT ![c] =
                                              @ \cup {"recording-stopped"}]
                             /\ Return(c, OkStop(nextSid, Len(processed)))
    /\ UNCHANGED <<stop_signal, level_stop, capture, init_rx, meter, device, nextBuf,
                   delivered, op, hotkeyVars, live_ok, stopped_early, sttVars>>

\* ----------------------------------------------------------------- hotkey
RegisteredDecisionReleaseToggles(m, ev, rec) ==
    IF m = "toggle"
       THEN IF ev = "Pressed" THEN (IF rec THEN "stop" ELSE "start") ELSE "none"
       ELSE IF ev = "Pressed" THEN "start" ELSE (IF rec THEN "stop" ELSE "start")

\* what the closure registered by register_shortcut does with a key event
RegisteredDecision(m, ev, rec) ==
    IF m = "toggle"
       THEN IF ev = "Pressed" THEN (IF rec THEN "stop" ELSE "start") ELSE "none"
       ELSE IF ev = "Pressed" THEN "start" ELSE "stop"

\* what the closure registered by update_hotkey does with a key event
UpdatedDecision(m, ev, rec) == IF ev = "Pressed" THEN "start" ELSE "stop"

Decision(h, m, ev, rec) ==
    IF h = "register_shortcut" THEN RegisteredDecision(m, ev, rec)
    ELSE UpdatedDecision(m, ev, rec)

\* notifications the closure emits before it calls start/stop
EmitBefore(h, act) ==
    IF act = "start"
       THEN (IF h = "register_shortcut" THEN {"hotkey-pressed", "recording-will-start"}
             ELSE {"hotkey-pressed"})
    ELSE IF act = "stop" THEN {"hotkey-released"}
    ELSE {}

\* notifications and bar calls of the closure once start/stop has returned
EmitAfter(h, m, act, ok) ==
    IF act = "none" THEN {}
    ELSE IF h = "register_shortcut"
       THEN IF m = "toggle"
               THEN IF act = "start"
                       THEN (IF ok THEN {"show_recording_bar"}
                             ELSE {"recording-error", "recording-stopped-reset"})
                       ELSE (IF ok THEN {} ELSE {"hide_recording_bar"})
               ELSE IF act = "start"
                       THEN (IF ok THEN {"show_recording_bar"} ELSE {"recording-error"})
                       ELSE (IF ok THEN {}
                             ELSE {"hide_recording_bar", "recording-stopped-reset"})
       ELSE IF act = "start"
               THEN (IF ok THEN {"show_recording_bar"} ELSE {})
               ELSE {"hide_recording_bar"}

\* the shortcut manager delivers a key event to the registered closure, which
\* reads the mode and is_recording() and calls start_recording or stop_recording
HotkeyEvent(ev) ==
    /\ pc["hk"] = "idle"
    /\ handler # "none"
    /\ LET act == Decision(handler, mode, ev, is_recording)
       IN /\ act = "start" => CanStart
          /\ key' = [state |-> ev, mode |-> mode, rec |-> is_recording,
                     handler |-> handler, action |-> act,
                     after_toggle_start |-> key.after_toggle_start]
          /\ op' = [op EXCEPT !["hk"] = act]
          /\ emitted' = [emitted EXCEPT !["hk"] = EmitBefore(handler, act)]
          /\ pc' = [pc EXCEPT !["hk"] = CASE act = "start" -> "s_check"
                                          [] act = "stop" -> "t_level"
                                          [] OTHER -> "returned"]
    /\ UNCHANGED <<recVars, call_buf, result, mode, handler, histVars, sttVars>>

\* the closure's match on the result of start/stop, and its return
HandlerAfter ==
    /\ pc["hk"] = "returned"
    /\ emitted' = [emitted EXCEPT !["hk"] = {}]
    /\ key' = [NoKey EXCEPT !.after_toggle_start =
                   /\ key.state = "Pressed" /\ key.mode = "toggle"
                   /\ key.action = "start" /\ result["hk"].tag = "Ok"]
    /\ pc' = [pc EXCEPT !["hk"] = "idle"]
    /\ op' = [op EXCEPT !["hk"] = "none"]
    /\ result' = [result EXCEPT !["hk"] = NoResult]
    /\ UNCHANGED <<recVars, call_buf, mode, handler, took, live_ok, stopped_early, sttVars>>

\* everything the closure has emitted when it returns
HandlerEmitted ==
    emitted["hk"] \cup EmitAfter(key.handler, key.mode, key.action,
                                 result["hk"].tag = "Ok")

\* --------------------------------------------------------------- commands
\* the frontend invokes start_recording or stop_recording
UiCall(o) ==
    /\ pc["ui"] = "idle"
    /\ o = "start" => CanStart
    /\ op' = [op EXCEPT !["ui"] = o]
    /\ pc' = [pc EXCEPT !["ui"] = IF o = "start" THEN "s_check" ELSE "t_level"]
    /\ UNCHANGED <<recVars, call_buf, result, emitted, hotkeyVars, histVars, sttVars>>

\* the command's result goes back to the frontend
UiReturn ==
    /\ pc["ui"] = "returned"
    /\ pc' = [pc EXCEPT !["ui"] = "idle"]
    /\ op' = [op EXCEPT !["ui"] = "none"]
    /\ result' = [result EXCEPT !["ui"] = NoResult]
    /\ emitted' = [emitted EXCEPT !["ui"] = {}]
    /\ UNCHANGED <<recVars, call_buf, hotkeyVars, took, live_ok, stopped_early, sttVars>>

\* ------------------------------------------------------------ audio import
\* WAV files a user may pick: a stereo file at 32 kHz and a file that cannot
\* be opened as WAV
WavFiles ==
    {[readable |-> TRUE, samples |-> <<200, 800, 400, 600, -100, -300, 500, 700>>,
      sample_rate |-> 32000, channels |-> 2],
     [readable |-> FALSE, samples |-> <<>>, sample_rate |-> 0, channels |-> 0]}

\* wav::read_wav_file: the samples with the rate and channel count of the header
read_wav_file(file) ==
    IF file.readable
       THEN [tag |-> "Ok", samples |-> file.samples,
             sample_rate |-> file.sample_rate, channels |-> file.channels]
       ELSE [tag |-> "Err", samples |-> <<>>, sample_rate |-> 0, channels |-> 0]

ImportedAsMono16k(wav) == preprocess(wav.samples, 1, TargetRate)

\* what import_audio_file stores for the file it has read
Imported(wav) == preprocess(wav.samples, wav.channels, wav.sample_rate)

OkImport(sid) == [NoResult EXCEPT !.tag = "Ok", !.session_id = sid]

\* the frontend's import_audio_file command: read, preprocess, insert under a
\* new session id
import_audio_file(file) ==
    /\ pc["ui"] = "idle"
    /\ nextSid <= MaxImports
    /\ op' = [op EXCEPT !["ui"] = "import"]
    /\ LET wav == read_wav_file(file)
       IN IF wav.tag = "Err"
             THEN /\ Return("ui", Err(<<"Failed to read WAV file">>))
                  /\ UNCHANGED <<sessions, nextSid>>
             ELSE /\ sessions' = Insert(sessions, nextSid, Imported(wav))
                  /\ nextSid' = nextSid + 1
                  /\ Return("ui", OkImport(nextSid))
    /\ UNCHANGED <<stop_signal, buffer, level_stop, samples, capture, init_rx, meter,
                   nextBuf, delivered, device, emitted, hotkeyVars, histVars, sttVars>>

\* a settings command that runs while the closure handles an event takes effect
\* at the next event, as one that runs right after the closure returns: both
\* settings commands are taken at that point
\* update_hotkey: unregister_all, then parse, then on_shortcut with its own closure
update_hotkey(valid) ==
    /\ pc["ui"] = "idle" /\ pc["hk"] = "idle"
    /\ handler' = IF valid THEN "update_hotkey" ELSE "none"
    /\ UNCHANGED <<recVars, callVars, mode, key, histVars, sttVars>>

\* update_recording_mode: stores the mode in HotkeyModeState
update_recording_mode(m) ==
    /\ pc["ui"] = "idle" /\ pc["hk"] = "idle"
    /\ m # mode
    /\ mode' = m
    /\ UNCHANGED <<recVars, callVars, handler, key, histVars, sttVars>>

\* ---------------------------------------------------------- transcription
get_session_audio_or_default(store, session_id) ==
    IF session_id \in DOMAIN store THEN <<"Some", store[session_id]>> ELSE <<"Some", <<>>>>

\* get_session_audio: a clone of the stored samples, <<"None">> when not stored
get_session_audio(store, session_id) ==
    IF session_id \in DOMAIN store THEN <<"Some", store[session_id]>> ELSE <<"None">>

NeverSilence(audio) == FALSE

\* the silence check of transcribe
is_silence(audio) == rms_energy(audio) < RmsThreshold

TranscribeDispatchResolvesFirst(store, session_id, model_id, api_key) ==
    LET found == get_session_audio(store, session_id)
        audio == found[2]
        engine_type == engine_for_model(model_id)
        ret(r) == [NoTask EXCEPT !.pc = "returned", !.result = r]
        go(p) == [NoTask EXCEPT !.pc = p, !.model_id = model_id, !.audio = audio]
    IN IF found[1] = "None" THEN ret(TErr(<<"Session not found">>))
       ELSE IF audio = <<>> THEN ret(TErr(<<"No audio data in session">>))
       ELSE IF engine_type = "" THEN ret(TErr(<<"Unknown model", model_id>>))
       ELSE IF is_silence(audio) THEN ret(TOk(""))
       ELSE IF engine_type = "CloudOpenAI"
          THEN IF api_key THEN go("cloud")
               ELSE ret(TErr(<<"API key required for cloud OpenAI transcription">>))
       ELSE IF engine_type = "CloudGroq"
          THEN IF api_key THEN go("cloud")
               ELSE ret(TErr(<<"API key required for cloud Groq transcription">>))
       ELSE go("load")

\* transcribe up to the dispatch on the engine kind: the session lookup, the
\* empty and silence checks, engine_for_model and the API key check; the value
\* is the request as it returns or goes on to the cloud call or to get_or_load
TranscribeDispatch(store, session_id, model_id, api_key) ==
    LET found == get_session_audio(store, session_id)
        audio == found[2]
        engine_type == engine_for_model(model_id)
        ret(r) == [NoTask EXCEPT !.pc = "returned", !.result = r]
        go(p) == [NoTask EXCEPT !.pc = p, !.model_id = model_id, !.audio = audio]
    IN IF found[1] = "None" THEN ret(TErr(<<"Session not found">>))
       ELSE IF audio = <<>> THEN ret(TErr(<<"No audio data in session">>))
       ELSE IF is_silence(audio) THEN ret(TOk(""))
       ELSE IF engine_type = "" THEN ret(TErr(<<"Unknown model", model_id>>))
       ELSE IF engine_type = "CloudOpenAI"
          THEN IF api_key THEN go("cloud")
               ELSE ret(TErr(<<"API key required for cloud OpenAI transcription">>))
       ELSE IF engine_type = "CloudGroq"
          THEN IF api_key THEN go("cloud")
               ELSE ret(TErr(<<"API key required for cloud Groq transcription">>))
       ELSE go("load")

Transcribe(t, session_id, model_id, api_key) ==
    /\ task[t].pc = "idle"
    /\ task' = [task EXCEPT ![t] = TranscribeDispatch(sessions, session_id,
                                                      model_id, api_key)]
    /\ UNCHANGED <<engines, transcription_lock, downloaded, nextEngine, deleting, appVars>>

is_model_downloaded_any_file(disk, model) ==
    IF model.engine \in {"CloudOpenAI", "CloudGroq"} THEN TRUE
    ELSE IF model.files = <<>> THEN FALSE
    ELSE \E i \in DOMAIN model.files : <<model.id, model.files[i]>> \in disk

\* models::is_model_downloaded: remote models need no files, a local model
\* needs a non-empty file list and each of its files in its directory
is_model_downloaded(disk, model) ==
    IF model.engine \in {"CloudOpenAI", "CloudGroq"} THEN TRUE
    ELSE IF model.files = <<>> THEN FALSE
    ELSE \A i \in DOMAIN model.files : <<model.id, model.files[i]>> \in disk

LoadOk(cache, engine) == [tag |-> "Ok", err |-> <<>>, engine |-> engine, engines |-> cache]
LoadErr(cache, msg) == [tag |-> "Err", err |-> msg, engine |-> 0, engines |-> cache]

GetOrLoadAlwaysConstructs(cache, model_id, files, loads, fresh) ==
    IF model_id \notin DOMAIN full_catalog
       THEN LoadErr(cache, <<"Unknown model", model_id>>)
    ELSE IF ~is_model_downloaded(files, ModelInfo(model_id))
       THEN LoadErr(cache, <<"Model is not downloaded", model_id>>)
    ELSE IF full_catalog[model_id] \in {"CloudOpenAI", "CloudGroq"}
       THEN LoadErr(cache, <<"Cloud models should not be loaded as local engines">>)
    ELSE IF ~loads
       THEN LoadErr(cache, <<"Failed to load model", full_catalog[model_id]>>)
    ELSE LoadOk([cache EXCEPT ![model_id] = fresh], fresh)

GetOrLoadCachesFirst(cache, model_id, files, loads, fresh) ==
    IF model_id \in DOMAIN cache /\ cache[model_id] # 0
       THEN LoadOk(cache, cache[model_id])
    ELSE IF model_id \notin DOMAIN full_catalog
       THEN LoadErr(cache, <<"Unknown model", model_id>>)
    ELSE IF full_catalog[model_id] \in {"CloudOpenAI", "CloudGroq"}
       THEN LoadErr(cache, <<"Cloud models should not be loaded as local engines">>)
    ELSE IF ~is_model_downloaded(files, ModelInfo(model_id))
       THEN LoadErr([cache EXCEPT ![model_id] = fresh],
                    <<"Model is not downloaded", model_id>>)
    ELSE IF ~loads
       THEN LoadErr([cache EXCEPT ![model_id] = fresh],
                    <<"Failed to load model", full_catalog[model_id]>>)
    ELSE LoadOk([cache EXCEPT ![model_id] = fresh], fresh)

\* SttManager::get_or_load, all of it under the engines lock: its result and
\* the cache it leaves. cache: the engines map; files: the files in the model
\* directories; loads: the engine constructor succeeds; fresh: the
\* instance a construction yields
GetOrLoad(cache, model_id, files, loads, fresh) ==
    IF model_id \in DOMAIN cache /\ cache[model_id] # 0
       THEN LoadOk(cache, cache[model_id])
    ELSE IF model_id \notin DOMAIN full_catalog
       THEN LoadErr(cache, <<"Unknown model", model_id>>)
    ELSE IF ~is_model_downloaded(files, ModelInfo(model_id))
       THEN LoadErr(cache, <<"Model is not downloaded", model_id>>)
    ELSE IF full_catalog[model_id] \in {"CloudOpenAI", "CloudGroq"}
       THEN LoadErr(cache, <<"Cloud models should not be loaded as local engines">>)
    ELSE IF ~loads
       THEN LoadErr(cache, <<"Failed to load model", full_catalog[model_id]>>)
    ELSE LoadOk([cache EXCEPT ![model_id] = fresh], fresh)

\* transcribe calls get_or_load for its local model
get_or_load(t, loads) ==
    /\ task[t].pc = "load"
    /\ LET r == GetOrLoad(engines, task[t].model_id, downloaded, loads, nextEngine)
       IN /\ engines' = r.engines
          /\ nextEngine' = IF r.engine = nextEngine THEN nextEngine + 1 ELSE nextEngine
          /\ IF r.tag = "Ok"
                THEN task' = [task EXCEPT ![t].pc = "lock", ![t].engine = r.engine]
                ELSE task' = [task EXCEPT ![t] = [NoTask EXCEPT
                                 !.pc = "returned", !.result = TErr(r.err)]]
    /\ UNCHANGED <<transcription_lock, downloaded, deleting, appVars>>

evict_all(cache, model_id) == [m \in DOMAIN cache |-> 0]

\* SttManager::evict: the cache without the entry of model_id
evict(cache, model_id) ==
    [m \in DOMAIN cache |-> IF m = model_id THEN 0 ELSE cache[m]]

\* delete_model evicts the cached engine ...
DeleteEvict(model_id) ==
    /\ model_id \notin deleting
    /\ nextEngine <= MaxLoads
    /\ engines' = evict(engines, model_id)
    /\ deleting' = deleting \cup {model_id}
    /\ UNCHANGED <<transcription_lock, downloaded, nextEngine, task, appVars>>

\* ... and then removes the model's directory
DeleteFiles(model_id) ==
    /\ model_id \in deleting
    /\ downloaded' = downloaded \ FilesOf({model_id})
    /\ deleting' = deleting \ {model_id}
    /\ UNCHANGED <<engines, transcription_lock, nextEngine, task, appVars>>

\* the files of a model that download_model does not skip, in catalogue order
MissingFiles(disk, model_id) ==
    SelectSeq(ModelFiles[model_id], LAMBDA f : <<model_id, f>> \notin disk)

\* download_model: creates the missing files in catalogue order; fetched: the
\* files created before the command returns, all of them unless a request fails
download_model(model_id, fetched) ==
    /\ fetched \in 1..Len(MissingFiles(downloaded, model_id))
    /\ downloaded' = downloaded \cup
          {<<model_id, MissingFiles(downloaded, model_id)[i]>> : i \in 1..fetched}
    /\ UNCHANGED <<engines, transcription_lock, nextEngine, deleting, task, appVars>>

LockWithoutWaiting(t) ==
    /\ task[t].pc = "lock"
    /\ transcription_lock' = t
    /\ task' = [task EXCEPT ![t].pc = "infer"]
    /\ UNCHANGED <<engines, downloaded, nextEngine, deleting, appVars>>

\* the blocking task acquires the transcription mutex and enters
\* engine.transcribe
LockTranscription(t) ==
    /\ task[t].pc = "lock"
    /\ transcription_lock = 0
    /\ transcription_lock' = t
    /\ task' = [task EXCEPT ![t].pc = "infer"]
    /\ UNCHANGED <<engines, downloaded, nextEngine, deleting, appVars>>

InferenceReturnKeepsLockOnError(t, ok) ==
    /\ task[t].pc = "infer"
    /\ transcription_lock' = IF transcription_lock = t /\ ok THEN 0 ELSE transcription_lock
    /\ task' = [task EXCEPT ![t] = [NoTask EXCEPT
                   !.pc = "returned",
                   !.result = IF ok THEN TOk("transcript")
                              ELSE TErr(<<"Transcription failed">>)]]
    /\ UNCHANGED <<engines, downloaded, nextEngine, deleting, appVars>>

\* engine.transcribe returns a transcript or an error; the guard is dropped
InferenceReturn(t, ok) ==
    /\ task[t].pc = "infer"
    /\ transcription_lock' = IF transcription_lock = t THEN 0 ELSE transcription_lock
    /\ task' = [task EXCEPT ![t] = [NoTask EXCEPT
                   !.pc = "returned",
                   !.result = IF ok THEN TOk("transcript")
                              ELSE TErr(<<"Transcription failed">>)]]
    /\ UNCHANGED <<engines, downloaded, nextEngine, deleting, appVars>>

\* the cloud request completes with a transcript or an error
CloudReturn(t, ok) ==
    /\ task[t].pc = "cloud"
    /\ task' = [task EXCEPT ![t] = [NoTask EXCEPT
                   !.pc = "returned",
                   !.result = IF ok THEN TOk("transcript")
                              ELSE TErr(<<"Cloud transcription failed",
                                          full_catalog[task[t].model_id]>>)]]
    /\ UNCHANGED <<engines, transcription_lock, downloaded, nextEngine, deleting, appVars>>

\* the command's result goes back to the frontend
TranscribeReturn(t) ==
    /\ task[t].pc = "returned"
    /\ task' = [task EXCEPT ![t] = NoTask]
    /\ UNCHANGED <<engines, transcription_lock, downloaded, nextEngine, deleting, appVars>>

\* ------------------------------------------------------------------ next
Recording ==
    \/ \E c \in Callers : StartCheck(c)
    \/ \E c \in Callers : StartSpawn(c)
    \/ \E c \in Callers : StartInitFailed(c)
    \/ \E c \in Callers : StartCleanup(c)
    \/ \E c \in Callers : StartStoreBuffer(c)
    \/ \E c \in Callers : StartSpawnMeter(c)
    \/ \E c \in Callers : StopLevel(c)
    \/ \E c \in Callers : StopSignal(c)
    \/ \E c \in Callers : StopTake(c)
    \/ \E b \in BufIds : CaptureInitFail(b)
    \/ \E b \in BufIds : CaptureInitDie(b)
    \/ \E b \in BufIds : CapturePlay(b)
    \/ \E b \in BufIds : Callback(b)
    \/ \E b \in BufIds : CaptureStop(b)
    \/ \E b \in BufIds : MeterTick(b)
    \/ \E b \in BufIds : MeterStop(b)

\* the hotkey thread (push-to-talk, as registered at setup) and the frontend
\* both drive start_recording / stop_recording
Next ==
    \/ Recording
    \/ \E ev \in {"Pressed", "Released"} : HotkeyEvent(ev)
    \/ HandlerAfter
    \/ \E o \in {"start", "stop"} : UiCall(o)
    \/ UiReturn

Spec == Init /\ [][Next]_vars

\* the hotkey thread alone drives recording; the frontend changes the mode and
\* rebinds the hotkey
NextHotkey ==
    \/ Recording
    \/ \E ev \in {"Pressed", "Released"} : HotkeyEvent(ev)
    \/ HandlerAfter
    \/ \E valid \in BOOLEAN : update_hotkey(valid)
    \/ \E m \in {"push-to-talk", "toggle"} : update_recording_mode(m)

SpecHotkey == Init /\ [][NextHotkey]_vars

\* the hotkey thread alone drives recording, with the handler and the mode
\* of setup (push-to-talk)
NextPushToTalk ==
    \/ Recording
    \/ \E ev \in {"Pressed", "Released"} : HotkeyEvent(ev)
    \/ HandlerAfter

SpecPushToTalk == Init /\ [][NextPushToTalk]_vars

\* transcribe requests for local models on the voiced session while models
\* are downloaded, completely or up to a failing request, and deleted; engines
\* load and infer without error
NextModels ==
    \/ \E t \in Tasks, mid \in LocalModels : Transcribe(t, 1, mid, FALSE)
    \/ \E t \in Tasks : get_or_load(t, TRUE)
    \/ \E t \in Tasks : LockTranscription(t)
    \/ \E t \in Tasks : InferenceReturn(t, TRUE)
    \/ \E t \in Tasks : TranscribeReturn(t)
    \/ \E m \in LocalModels, fetched \in 1..4 : download_model(m, fetched)
    \/ \E m \in LocalModels : DeleteEvict(m)
    \/ \E m \in LocalModels : DeleteFiles(m)

SpecModels == InitTranscribe /\ [][NextModels]_vars

\* the hotkey thread records in push-to-talk mode on a working input device
\* while the frontend imports audio files
NextImport ==
    \/ \E c \in Callers : StartCheck(c)
    \/ \E c \in Callers : StartSpawn(c)
    \/ \E c \in Callers : StartStoreBuffer(c)
    \/ \E c \in Callers : StartSpawnMeter(c)
    \/ \E c \in Callers : StopLevel(c)
    \/ \E c \in Callers : StopSignal(c)
    \/ \E c \in Callers : StopTake(c)
    \/ \E b \in BufIds : CapturePlay(b)
    \/ \E b \in BufIds : Callback(b)
    \/ \E b \in BufIds : CaptureStop(b)
    \/ \E b \in BufIds : MeterStop(b)
    \/ \E ev \in {"Pressed", "Released"} : HotkeyEvent(ev)
    \/ HandlerAfter
    \/ \E file \in WavFiles : import_audio_file(file)
    \/ UiReturn

SpecImport == Init /\ [][NextImport]_vars

\* every capture thread that can take a step takes one: it finishes its
\* initialisation, and its recv returns once the stop sender is used or dropped
SpecPushToTalkFair ==
    /\ SpecPushToTalk
    /\ \A b \in BufIds :
          /\ WF_vars(CapturePlay(b) \/ CaptureInitFail(b) \/ CaptureInitDie(b))
          /\ WF_vars(CaptureStop(b))

\* sample values a device delivers: loud, silent, faint, medium
RawValues == {-800, 0, 1, 400}

\* the raw samples of a captured session
RawInputs == UNION {[1..n -> RawValues] : n \in 0..MaxRawLen}

\* (sample rate, channels) of the device that captured them
CaptureConfigs == {8000, 16000, 32000, 48000} \X {1, 2}

\* a session started by the frontend is recording: its stream plays, the buffer
\* is stored with the device's configuration and holds the samples captured
InitCaptured ==
    /\ stop_signal = 1
    /\ device \in CaptureConfigs
    /\ buffer = [samples |-> 1, sample_rate |-> device[1], channels |-> device[2]]
    /\ level_stop = 1
    /\ \E raw \in RawInputs : samples = [b \in BufIds |-> IF b = 1 THEN raw ELSE <<>>]
    /\ capture = [b \in BufIds |-> IF b = 1 THEN "playing" ELSE "none"]
    /\ init_rx = [b \in BufIds |-> EmptyMsg]
    /\ meter = [b \in BufIds |-> IF b = 1 THEN "running" ELSE "none"]
    /\ nextBuf = 2
    /\ nextSid = 1
    /\ delivered = [b \in BufIds |-> 0]
    /\ sessions = <<>>
    /\ pc = [c \in Callers |-> "idle"]
    /\ op = [c \in Callers |-> "none"]
    /\ call_buf = [c \in Callers |-> 0]
    /\ result = [c \in Callers |-> NoResult]
    /\ emitted = [c \in Callers |-> {}]
    /\ mode = "push-to-talk"
    /\ handler = "register_shortcut"
    /\ key = NoKey
    /\ took = {}
    /\ live_ok = {1}
    /\ stopped_early = {}
    /\ InitSttManager
    /\ downloaded = {}

\* the frontend stops the session: stop_recording runs the signal processor on
\* what was captured
NextProcessing ==
    \/ UiCall("stop")
    \/ \E c \in Callers : StopLevel(c)
    \/ \E c \in Callers : StopSignal(c)
    \/ \E c \in Callers : StopTake(c)
    \/ UiReturn
    \/ \E b \in BufIds : CaptureStop(b)
    \/ \E b \in BufIds : MeterStop(b)

SpecProcessing == InitCaptured /\ [][NextProcessing]_vars

\* the recording-stopped notifications of stop_recording that listeners are
\* being handed: the StopResult payloads
StoppedNotifications ==
    {result[c] : c \in {x \in Callers : /\ "recording-stopped" \in emitted[x]
                                        /\ result[x].tag = "Ok"}}

\* the frontend's listener reacts to a recording-stopped notification by
\* invoking transcribe with the session id of the payload
ListenerTranscribe(t) ==
    \E n \in StoppedNotifications : Transcribe(t, n.session_id, "whisper-tiny", FALSE)

\* the request of the listener, which awaits one transcribe at a time
ListenerTasks == {1}

\* the hotkey thread records in push-to-talk mode and the frontend transcribes
\* the sessions it is notified of, with a local model that is not downloaded
NextListener ==
    \/ Recording
    \/ \E ev \in {"Pressed", "Released"} : HotkeyEvent(ev)
    \/ HandlerAfter
    \/ \E t \in ListenerTasks : ListenerTranscribe(t)
    \/ \E t \in ListenerTasks : get_or_load(t, TRUE)
    \/ \E t \in ListenerTasks : TranscribeReturn(t)

SpecListener == Init /\ [][NextListener]_vars

\* concurrent transcribe requests against a fixed Session Store
NextTranscribe ==
    \/ \E t \in Tasks, sid \in SessionIds, mid \in ModelIds, k \in BOOLEAN :
           Transcribe(t, sid, mid, k)
    \/ \E t \in Tasks, loads \in BOOLEAN : get_or_load(t, loads)
    \/ \E t \in Tasks : LockTranscription(t)
    \/ \E t \in Tasks, ok \in BOOLEAN : InferenceReturn(t, ok)
    \/ \E t \in Tasks, ok \in BOOLEAN : CloudReturn(t, ok)
    \/ \E t \in Tasks : TranscribeReturn(t)

SpecTranscribe == InitTranscribe /\ [][NextTranscribe]_vars

\* every inference in progress returns, and a blocking task parked on the
\* transcription mutex, which each unlock wakes, acquires it when it is
\* released again and again
SpecTranscribeFair ==
    /\ SpecTranscribe
    /\ \A t \in Tasks : WF_vars(\E ok \in BOOLEAN : InferenceReturn(t, ok))
    /\ \A t \in Tasks : SF_vars(LockTranscription(t))

\* concurrent transcribe requests for local models on the voiced session, while
\* models are deleted and downloaded (every download completes)
NextCache ==
    \/ \E t \in Tasks, mid \in LocalModels : Transcribe(t, 1, mid, FALSE)
    \/ \E t \in Tasks, loads \in BOOLEAN : get_or_load(t, loads)
    \/ \E t \in Tasks : LockTranscription(t)
    \/ \E t \in Tasks, ok \in BOOLEAN : InferenceReturn(t, ok)
    \/ \E t \in Tasks : TranscribeReturn(t)
    \/ \E m \in LocalModels : DeleteEvict(m)
    \/ \E m \in LocalModels : DeleteFiles(m)
    \/ \E m \in LocalModels : download_model(m, Len(MissingFiles(downloaded, m)))

SpecCache == InitTranscribe /\ [][NextCache]_vars

\* ------------------------------------------------------------------ claims
AlreadyRecording == Err(<<"Recording already in progress">>)
NotRecording == Err(<<"No active recording">>)
NoAudioCaptured == Err(<<"No audio data captured">>)

\* C1: no two local-engine inference calls execute at the same time, whatever
\* the number of concurrent transcribe requests, their models and engine kinds:
\* at most one request is inside engine.transcribe, and it holds the mutex
C1_InferenceSerialized ==
    /\ Cardinality({t \in Tasks : task[t].pc = "infer"}) <= 1
    /\ \A t \in Tasks : task[t].pc = "infer" => transcription_lock = t

\* a Whisper request is inferring while a Parakeet request waits for the mutex
C1_Witness ==
    \E t, u \in Tasks :
        /\ task[t].pc = "infer" /\ full_catalog[task[t].model_id] = "Whisper"
        /\ task[u].pc = "lock" /\ full_catalog[task[u].model_id] = "Parakeet"

\* C2: at most one capture session is active under any interleaving of
\* start_recording calls: at most one start has returned Ok without a stop
\* having taken its stop sender
C2_OneActiveSession == Cardinality(live_ok) <= 1

\* C3: start_recording while a session is active returns the already-recording
\* error at its check, before any device work, and leaves the session as it is:
\* stop sender, stored buffer, level meter, sample vectors, capture threads
C3_StartWhileActiveRejected ==
    [][\A c \in Callers :
          (pc[c] = "s_check" /\ pc'[c] # "s_check" /\ stop_signal # 0)
          => /\ pc'[c] = "returned"
             /\ result'[c] = AlreadyRecording
             /\ UNCHANGED <<stop_signal, buffer, level_stop, sessions, samples,
                            capture, init_rx, meter, nextBuf, delivered>>]_vars

\* a push-to-talk key-down was rejected while the session's stream is playing
\* and has samples
C3_Witness ==
    /\ pc["hk"] = "returned" /\ op["hk"] = "start"
    /\ key.state = "Pressed" /\ key.mode = "push-to-talk"
    /\ result["hk"] = AlreadyRecording
    /\ stop_signal # 0
    /\ capture[stop_signal] = "playing"
    /\ samples[stop_signal] # <<>>
    /\ meter[stop_signal] = "running"

\* C4: every sample the callback appended before the capture thread observed
\* the stop signal is in the raw samples stop_recording took: a sample vector
\* stop_recording has taken receives no further samples
C4_NoSampleAfterTake == \A b \in took : samples[b] = <<>>

\* C5: a successful stop_recording adds exactly one entry to the Session Store
\* under a fresh id, holding preprocess(raw, channels, rate) of the raw samples
\* taken; it returns that id with sample_count the stored length, and no session
\* is active afterwards
C5_StopStoresPreprocessed ==
    [][\A c \in Callers :
          (pc[c] = "t_take" /\ pc'[c] = "returned" /\ result'[c].tag = "Ok")
          => LET sid == result'[c].session_id
             IN /\ sid \notin DOMAIN sessions
                /\ DOMAIN sessions' = DOMAIN sessions \cup {sid}
                /\ \A x \in DOMAIN sessions : sessions'[x] = sessions[x]
                /\ sessions'[sid] = preprocess(samples[buffer.samples],
                                               buffer.channels, buffer.sample_rate)
                /\ result'[c].sample_count = Len(sessions'[sid])
                /\ stop_signal' = 0
                /\ buffer' = NoBuffer]_vars

\* a stop has returned Ok for a session with audio in the store
C5_Witness ==
    /\ pc["hk"] = "returned" /\ op["hk"] = "stop"
    /\ result["hk"].tag = "Ok"
    /\ result["hk"].session_id \in DOMAIN sessions
    /\ sessions[result["hk"].session_id] # <<>>
    /\ result["hk"].sample_count = Len(sessions[result["hk"].session_id])

\* C6: stop_recording when no session is active fails with the not-recording
\* error and changes nothing: none of its steps changes the recording state or
\* emits a notification, so a following start finds the state Idle
C6_StopWhenIdleChangesNothing ==
    [][\A c \in Callers :
          (op[c] = "stop" /\ pc[c] \in {"t_level", "t_signal"} /\ stop_signal = 0
           /\ pc'[c] # pc[c])
          => /\ UNCHANGED recVars
             /\ emitted'[c] = emitted[c]
             /\ "recording-stopped" \notin emitted'[c]
             /\ pc[c] = "t_signal" => (pc'[c] = "returned" /\ result'[c] = NotRecording)
             /\ pc[c] = "t_level" => pc'[c] = "t_signal"]_vars

\* a key-up with no session active has had its stop rejected
C6_Witness ==
    /\ pc["hk"] = "returned" /\ op["hk"] = "stop"
    /\ key.state = "Released"
    /\ result["hk"] = NotRecording
    /\ stop_signal = 0 /\ buffer = NoBuffer

\* C7: stop_recording on a session that captured no samples fails with the
\* no-audio error, stores nothing, and still ends the session: the stop sender
\* and the buffer are gone, so the next start is not rejected
C7_StopWithoutAudio ==
    [][\A c \in Callers :
          (pc[c] = "t_take" /\ pc'[c] # "t_take" /\ buffer # NoBuffer
           /\ samples[buffer.samples] = <<>>)
          => /\ pc'[c] = "returned"
             /\ result'[c] = NoAudioCaptured
             /\ sessions' = sessions
             /\ nextSid' = nextSid
             /\ "recording-stopped" \notin emitted'[c]
             /\ stop_signal' = 0
             /\ buffer' = NoBuffer]_vars

\* a stop has failed for want of samples and the session is over
C7_Witness ==
    /\ pc["hk"] = "returned" /\ op["hk"] = "stop"
    /\ result["hk"] = NoAudioCaptured
    /\ stop_signal = 0 /\ buffer = NoBuffer
    /\ sessions = <<>>

\* C8: when the capture thread reports a failed initialisation, or dies before
\* reporting, start_recording returns that failure and never success, and
\* returns with no active session, no buffer stored, no level meter spawned and
\* recording-started not emitted
C8_InitFailureReported ==
    [][\A c \in Callers :
          /\ (pc[c] = "s_wait" /\ pc'[c] # "s_wait"
              /\ init_rx[call_buf[c]].tag \in {"Err", "Disconnected"})
             => /\ pc'[c] = "s_clean"
                /\ result'[c].tag = "Err"
                /\ init_rx[call_buf[c]].tag = "Err"
                   => result'[c].err = <<"Audio init failed", init_rx[call_buf[c]].err>>
                /\ init_rx[call_buf[c]].tag = "Disconnected"
                   => result'[c].err = <<"Capture thread died before initialization">>
          /\ (pc[c] = "s_clean" /\ pc'[c] # "s_clean")
             => /\ pc'[c] = "returned"
                /\ result'[c] = result[c]
                /\ stop_signal' = 0
                /\ level_stop' = 0
                /\ buffer' = NoBuffer
                /\ "recording-started" \notin emitted'[c]
                /\ \A b \in BufIds : meter'[b] # "running"]_vars

\* a key-down's start has returned the device's failure
C8_Witness ==
    /\ pc["hk"] = "returned" /\ op["hk"] = "start"
    /\ result["hk"] = Err(<<"Audio init failed", "No input device available">>)
    /\ stop_signal = 0 /\ level_stop = 0 /\ buffer = NoBuffer

\* C9: in toggle mode, a key-down from Idle whose start succeeds followed by
\* another key-down gives one start and then one stop, never two starts
C9_ToggleSecondPressStops ==
    (key.after_toggle_start /\ key.state = "Pressed" /\ key.mode = "toggle")
    => key.action = "stop"

\* C10: every key event is decided by the mode current when it is handled,
\* also by the handler update_hotkey installs
C10_DecidedByCurrentMode ==
    key.state # "none" => key.action = RegisteredDecision(key.mode, key.state, key.rec)

\* C11: update_hotkey validates the new binding before it touches the
\* registration: a call with an invalid hotkey string leaves the registered
\* handler registered
C11_InvalidRebindKeepsHotkey ==
    [][update_hotkey(FALSE) => handler' = handler]_vars

\* C12: when a stop_recording called by the hotkey handler fails, the handler
\* hides the recording indicator and emits the reset event (recording-stopped
\* with an empty result), in push-to-talk mode and in toggle mode
C12_FailedStopResets ==
    (pc["hk"] = "returned" /\ key.action = "stop" /\ result["hk"].tag = "Err")
    => {"hide_recording_bar", "recording-stopped-reset"} \subseteq HandlerEmitted

\* C13: when a start_recording called by the hotkey handler fails, the handler
\* emits recording-error, whichever handler is registered
C13_FailedStartNotifies ==
    (pc["hk"] = "returned" /\ key.action = "start" /\ result["hk"].tag = "Err")
    => "recording-error" \in HandlerEmitted

\* a key-up the closure handles in push-to-talk mode with no session active
IdleKeyUp(k) == k.state = "Released" /\ k.mode = "push-to-talk" /\ ~k.rec

\* C14: in push-to-talk mode a key-up received while Idle is a no-op: from the
\* event to the closure's return the state stays Idle (no stop sender, buffer
\* or meter sender), no capture thread is started, nothing is added to the
\* Session Store, and no step of the closure changes the recording state
C14_IdleKeyUpIsNoOp ==
    [][(IdleKeyUp(key) \/ IdleKeyUp(key'))
       => /\ UNCHANGED <<stop_signal, buffer, level_stop, sessions, nextBuf, nextSid>>
          /\ stop_signal = 0 /\ buffer = NoBuffer /\ level_stop = 0
          /\ pc'["hk"] # pc["hk"] => UNCHANGED recVars
          /\ pc["hk"] = "returned" => result["hk"] = NotRecording
          /\ pc["hk"] \notin {"s_check", "s_set", "s_wait", "s_clean", "s_meter"}]_vars

\* the key-up of an earlier session stored it; a further key-up has been handled
\* with nothing to stop
C14_Witness ==
    /\ pc["hk"] = "returned"
    /\ IdleKeyUp(key)
    /\ key.handler = "register_shortcut"
    /\ result["hk"] = NotRecording
    /\ DOMAIN sessions = {1}
    /\ nextBuf = 2

\* C15: in toggle mode a key-up is ignored: the closure calls neither
\* start_recording nor stop_recording and emits nothing
C15_ToggleKeyUpIgnored ==
    (key.state = "Released" /\ key.mode = "toggle")
    => (key.action = "none" /\ HandlerEmitted = {})

\* C16: the engine cache constructs at most one engine per model between
\* evictions: an entry only changes from absent to a newly constructed instance
\* or from present to absent; a get_or_load that succeeds returns the instance
\* the cache holds afterwards, which on a hit is the one cached before, with no
\* construction; so concurrent calls for one uncached model construct once and
\* all get that instance
C16_OneEnginePerModel ==
    [][/\ \A m \in LocalModels :
              engines'[m] # engines[m]
              => \/ engines[m] = 0 /\ engines'[m] = nextEngine
                                   /\ nextEngine' = nextEngine + 1
                 \/ engines'[m] = 0 /\ nextEngine' = nextEngine
       /\ nextEngine' # nextEngine
              => \E m \in LocalModels : engines[m] = 0 /\ engines'[m] = nextEngine
       /\ \A t \in Tasks :
              (task[t].pc = "load" /\ task'[t].pc = "lock")
              => LET m == task[t].model_id
                 IN /\ task'[t].engine = engines'[m]
                    /\ task'[t].engine # 0
                    /\ engines[m] # 0 => /\ task'[t].engine = engines[m]
                                         /\ UNCHANGED <<engines, nextEngine>>]_vars

\* two requests for the same model have both passed get_or_load with the one
\* instance constructed so far, which is the cached one
C16_Witness ==
    \E t, u \in Tasks :
        /\ t # u
        /\ task[t].pc = "infer" /\ task[u].pc = "lock"
        /\ task[t].model_id = task[u].model_id
        /\ task[t].engine = 1 /\ task[u].engine = 1
        /\ engines[task[t].model_id] = 1
        /\ nextEngine = 2

\* C17: evict(model_id), as delete_model calls it, removes the cached engine of
\* that model and leaves every other entry as it is; a get_or_load that finds
\* no entry then constructs a new instance, distinct from every instance cached
\* or handed out before
C17_EvictForcesReload ==
    [][/\ \A m \in LocalModels :
              DeleteEvict(m)
              => /\ engines'[m] = 0
                 /\ \A o \in LocalModels \ {m} : engines'[o] = engines[o]
       /\ \A t \in Tasks :
              (task[t].pc = "load" /\ task'[t].pc = "lock"
                  /\ engines[task[t].model_id] = 0)
              => /\ engines'[task[t].model_id] = task'[t].engine
                 /\ \A o \in LocalModels : engines[o] < task'[t].engine
                 /\ \A u \in Tasks : task[u].engine < task'[t].engine
                 /\ nextEngine' > task'[t].engine]_vars

\* a request still holds the instance cached before the eviction while the
\* cache holds the instance constructed after it, the other model still cached
C17_Witness ==
    \E t \in Tasks, o \in LocalModels :
        /\ task[t].pc \in {"lock", "infer"}
        /\ task[t].engine # 0
        /\ engines[task[t].model_id] > task[t].engine
        /\ o # task[t].model_id
        /\ engines[o] # 0 /\ engines[o] < engines[task[t].model_id]

SilentSession(session_id) ==
    /\ session_id \in DOMAIN sessions
    /\ sessions[session_id] # <<>>
    /\ rms_energy(sessions[session_id]) < RmsThreshold

\* C20: transcribe on a stored session whose RMS energy is below the silence
\* threshold returns at once a result with empty text and no segments, for
\* every model id and with or without an API key, holding no engine; a
\* transcribe that returns at once never reaches get_or_load, the mutex or an
\* engine: the engine cache, the instances constructed, the model files and
\* the mutex stay as they are
C20_SilenceSkipsEngine ==
    /\ [](\A sid \in SessionIds :
            SilentSession(sid)
            => \A mid \in ModelIds, k \in BOOLEAN :
                  LET r == TranscribeDispatch(sessions, sid, mid, k)
                  IN /\ r.pc = "returned"
                     /\ r.result.tag = "Ok"
                     /\ r.result.text = ""
                     /\ r.result.segments = <<>>
                     /\ r.engine = 0)
    /\ [][\A t \in Tasks :
             (task[t].pc = "idle" /\ task'[t].pc = "returned")
             => UNCHANGED <<engines, nextEngine, transcription_lock, downloaded>>]_vars

\* a request on a faint but non-zero session has returned the empty result
\* while nothing is cached or constructed, the models being downloaded
C20_Witness ==
    /\ SilentSession(4)
    /\ PeakOf(sessions[4]) > 0
    /\ \E t \in Tasks : task[t].pc = "returned" /\ task[t].result = TOk("")
    /\ \A m \in LocalModels : engines[m] = 0
    /\ downloaded = FilesOf(LocalModels)
    /\ nextEngine = 1
    /\ transcription_lock = 0

\* C21: transcribe fails with the session-not-found error when the session id
\* is not in the Session Store and with the empty-audio error when the stored
\* samples have length zero, for every model id and with or without an API
\* key; the request holds no engine, and the step leaves the Session Store,
\* the engine cache, the instances constructed and the mutex as they are
C21_MissingOrEmptySession ==
    /\ [](\A sid \in SessionIds, mid \in ModelIds, k \in BOOLEAN :
            LET r == TranscribeDispatch(sessions, sid, mid, k)
            IN /\ sid \notin DOMAIN sessions
                    => r = [NoTask EXCEPT !.pc = "returned",
                                          !.result = TErr(<<"Session not found">>)]
               /\ (sid \in DOMAIN sessions /\ Len(sessions[sid]) = 0)
                    => r = [NoTask EXCEPT !.pc = "returned",
                                          !.result = TErr(<<"No audio data in session">>)])
    /\ [][\A t \in Tasks :
             (task[t].pc = "idle" /\ task'[t].pc = "returned"
                 /\ task'[t].result.err \in {<<"Session not found">>,
                                             <<"No audio data in session">>})
             => UNCHANGED <<sessions, engines, nextEngine, transcription_lock>>]_vars

\* one request has failed on a session that is not stored and another on the
\* empty session, with nothing cached
C21_Witness ==
    /\ 5 \notin DOMAIN sessions
    /\ sessions[3] = <<>>
    /\ \E t, u \in Tasks :
          /\ task[t].pc = "returned"
          /\ task[t].result = TErr(<<"Session not found">>)
          /\ task[u].pc = "returned"
          /\ task[u].result = TErr(<<"No audio data in session">>)
    /\ \A m \in LocalModels : engines[m] = 0

\* C22: a session is removed from the Session Store once a transcription has
\* pulled it: when a request that went on to an engine with the audio of a
\* session returns its transcript, no stored session holds that audio
C22_TranscribedSessionRemoved ==
    [][\A t \in Tasks :
          (task[t].pc \in {"infer", "cloud"} /\ task'[t].pc = "returned"
              /\ task'[t].result.tag = "Ok")
          => \A sid \in DOMAIN sessions' : sessions'[sid] # task[t].audio]_vars

\* C23: a remote transcription call carries a request timeout: a request
\* waiting for the remote server returns, also when the server never responds
\* (CloudReturn, the arrival of the response, is under no fairness condition)
C23_CloudCallReturns ==
    \A t \in Tasks : (task[t].pc = "cloud") ~> (task[t].pc = "returned")

\* C24: every level-meter thread terminates after its session has ended, for
\* any interleaving of start_recording and stop_recording calls. The thread
\* leaves its loop only when it receives the message stop_recording sends on
\* the stored sender, so each running meter must have its sender stored: a
\* running meter whose sender was dropped unsent ticks forever
C24_MeterCanBeStopped ==
    \A b \in BufIds : meter[b] = "running" => level_stop = b

\* C25: stop_recording never waits for the level-meter thread: at each of its
\* steps (signalling the meter, signalling the capture thread, taking the
\* buffer) the call can proceed whatever state the meter thread is in, so it
\* completes even if the meter never runs again; the meter thread holds the
\* samples lock only within a tick, and its exit changes nothing the call uses
C25_StopNeverWaitsForMeter ==
    /\ [](\A c \in Callers :
            /\ pc[c] = "t_level" => ENABLED StopLevel(c)
            /\ pc[c] = "t_signal" => ENABLED StopSignal(c)
            /\ pc[c] = "t_take" => ENABLED StopTake(c))
    /\ [][(\E b \in BufIds : meter[b] = "signalled" /\ meter'[b] = "none")
             => UNCHANGED <<stop_signal, buffer, level_stop, sessions, pc, result>>]_vars

\* a stop_recording has stored the session and returned while the meter
\* thread it signalled has not run since
C25_Witness ==
    /\ pc["hk"] = "returned" /\ op["hk"] = "stop"
    /\ result["hk"].tag = "Ok"
    /\ result["hk"].session_id \in DOMAIN sessions
    /\ \E b \in BufIds : meter[b] = "signalled"

\* C26: every capture thread exits and releases the device stream: with the
\* report of an initialisation failure, or once the stop sender of its session
\* is no longer stored (sent on by stop_recording, or dropped); no capture
\* thread stays alive after its session has ended
C26_CaptureThreadExits ==
    /\ [][\A b \in BufIds :
             (init_rx[b].tag = "empty" /\ init_rx'[b].tag \in {"Err", "Disconnected"})
             => capture'[b] = "none"]_vars
    /\ \A b \in BufIds :
          (capture[b] # "none" /\ stop_signal # b) ~> (capture[b] = "none")

\* the stream of the first session is still playing after its stop_recording
\* returned, while the second session records
C26_Witness ==
    /\ capture[1] = "playing" /\ 1 \in DOMAIN sessions
    /\ stop_signal = 2 /\ capture[2] = "playing"

AnyModelInfo == {ModelInfo(id) : id \in DOMAIN full_catalog} \cup {EmptyFilesModel}

\* C28: in every state of the model directories, is_model_downloaded is true
\* exactly for a remote model and for a local model with a non-empty file list
\* whose files are all in its directory: it is false for a local model with
\* only some of its files, with none, or with an empty file list
C28_DownloadedIffAllFiles ==
    \A model \in AnyModelInfo :
        LET local == model.engine \in {"Whisper", "Parakeet"}
            present == {i \in DOMAIN model.files :
                           <<model.id, model.files[i]>> \in downloaded}
        IN /\ ~local => is_model_downloaded(downloaded, model)
           /\ (local /\ model.files = <<>>) => ~is_model_downloaded(downloaded, model)
           /\ (local /\ present # DOMAIN model.files)
                  => ~is_model_downloaded(downloaded, model)
           /\ (local /\ model.files # <<>> /\ present = DOMAIN model.files)
                  => is_model_downloaded(downloaded, model)

\* a download of the Parakeet model stopped after two of its four files: a
\* request for it was refused as not downloaded, while the Whisper model, its
\* file present, is loaded
C28_Witness ==
    LET p == "parakeet-tdt-0.6b-v2" w == "whisper-tiny"
    IN /\ Cardinality(FilesOf({p}) \cap downloaded) = 2
       /\ ~is_model_downloaded(downloaded, ModelInfo(p))
       /\ is_model_downloaded(downloaded, ModelInfo(w))
       /\ engines[w] # 0 /\ engines[p] = 0
       /\ \E t \in Tasks :
             /\ task[t].pc = "returned"
             /\ task[t].result = TErr(<<"Model is not downloaded", p>>)

\* C29: preprocess(samples, channels, rate) equals
\* normalize(resample(to_mono(samples, channels), rate, 16000)) for the raw
\* samples and the configuration of every captured session, and stereo
\* <<0.2, 0.8, 0.4, 0.6>> at 16 kHz gives <<0.95, 0.95>>
C29_PreprocessIsComposition ==
    /\ preprocess(<<200, 800, 400, 600>>, 2, 16000) = <<950, 950>>
    /\ buffer # NoBuffer
          => LET raw == samples[buffer.samples]
             IN preprocess(raw, buffer.channels, buffer.sample_rate)
                = normalize(resample(to_mono(raw, buffer.channels),
                                     buffer.sample_rate, TargetRate))

\* a stereo session captured at 8 kHz was mixed to one sample, resampled to
\* two and normalized to the target peak, and stored
C29_Witness ==
    /\ device = <<8000, 2>>
    /\ pc["ui"] = "returned" /\ result["ui"].tag = "Ok"
    /\ Len(sessions[result["ui"].session_id]) = 2
    /\ PeakOf(sessions[result["ui"].session_id]) = TargetPeak

\* inputs of the signal processor: captured samples, and the channel counts and
\* rates a buffer can carry, the placeholder 0 of a new AudioBuffer included
ProcessorChannels == {0, 1, 2}

ProcessorRates == {0, 16000, 48000}

\* C30: to_mono, resample, normalize, rms_energy and preprocess never panic
\* for any input, including an empty sample sequence, channels = 0 and
\* source_rate = 0
C30_ProcessorNeverPanics ==
    \A smp \in RawInputs \cup {samples[b] : b \in BufIds} :
        /\ Len(normalize(smp)) = Len(smp)
        /\ rms_energy(smp) >= 0
        /\ \A channels \in ProcessorChannels : ~to_mono_panics(smp, channels)
        /\ \A source_rate \in ProcessorRates :
               ~resample_panics(smp, source_rate, TargetRate)
        /\ \A channels \in ProcessorChannels, sample_rate \in ProcessorRates :
               ~preprocess_panics(smp, channels, sample_rate)

\* channel counts of a capture device
MonoChannels == {1, 2, 3}

\* the captured samples of the session being recorded or stopped
CapturedRaw == IF buffer = NoBuffer THEN <<>> ELSE samples[buffer.samples]

\* C31: for every channel count c >= 2, to_mono returns floor(len / c) samples,
\* the i-th being the average of input samples i*c .. i*c + c - 1 (a trailing
\* partial frame is dropped); for c = 1 it returns the input unchanged
C31_ToMonoAveragesFrames ==
    \A c \in MonoChannels :
        LET out == to_mono(CapturedRaw, c)
        IN IF c = 1 THEN out = CapturedRaw
           ELSE /\ Len(out) * c <= Len(CapturedRaw)
                /\ Len(CapturedRaw) < (Len(out) + 1) * c
                /\ \A i \in 1..Len(out) :
                      LET frame == [j \in 1..c |-> CapturedRaw[(i - 1) * c + j]]
                      IN out[i] = Quot(SumSeq(frame), c)

\* stop_recording is about to take a stereo capture of three samples: the
\* first two are averaged, the third is dropped
C31_Witness ==
    /\ pc["ui"] = "t_take"
    /\ buffer.channels = 2
    /\ CapturedRaw = <<-800, 400, 1>>
    /\ to_mono(CapturedRaw, buffer.channels) = <<-200>>

\* sample rates of capture devices
CaptureRates == {8000, 16000, 32000, 48000}

\* ten milliseconds of a constant signal at 48 kHz
Frame48k == [i \in 1..480 |-> 400]

\* resample calls: the captured samples from each device rate to 16 kHz, and
\* a ten-millisecond frame from 48 kHz to 44.1 kHz
ResampleCalls ==
    {[smp |-> CapturedRaw, source_rate |-> r, target_rate |-> TargetRate] :
        r \in CaptureRates}
    \cup {[smp |-> Frame48k, source_rate |-> 48000, target_rate |-> 44100]}

\* C32: for source_rate different from target_rate, resample returns exactly
\* floor(input_len * target_rate / source_rate) samples; when the rates are
\* equal it returns the input unchanged
C32_ResampleLength ==
    \A call \in ResampleCalls :
        LET out == resample(call.smp, call.source_rate, call.target_rate)
        IN IF call.source_rate = call.target_rate THEN out = call.smp
           ELSE Len(out) = (Len(call.smp) * call.target_rate) \div call.source_rate

\* rates resample converts between
ResampleRates == {8000, 16000, 32000, 44100, 48000}

\* C33: for an input whose samples all equal a constant v, every sample of
\* resample's output equals v, for any source and target rate, downsampling
\* and upsampling: no output sample is pulled towards the past-the-end 0.0
C33_ResampleKeepsConstant ==
    (\A i \in 1..Len(CapturedRaw) : CapturedRaw[i] = CapturedRaw[1])
    => \A source_rate \in ResampleRates, target_rate \in ResampleRates :
          LET out == resample(CapturedRaw, source_rate, target_rate)
          IN \A k \in 1..Len(out) : out[k] = CapturedRaw[1]

\* a constant capture of two samples at 8 kHz was stored as four equal samples
C33_Witness ==
    /\ device = <<8000, 1>>
    /\ pc["ui"] = "returned" /\ result["ui"].tag = "Ok"
    /\ sessions[result["ui"].session_id] = <<950, 950, 950, 950>>

C35_DeletedModelNotCached ==
    \A m \in LocalModels :
        (m \notin deleting /\ FilesOf({m}) \cap downloaded = {}) => engines[m] = 0

\* C36: whenever no start_recording or stop_recording call is in progress, the
\* capture stop signal, the stored AudioBuffer and the level-meter stop signal
\* are either all present or all absent, after any interleaving of calls
C36_StateConsistent ==
    (\A c \in Callers : pc[c] \in {"idle", "returned"})
    => /\ (stop_signal # 0) <=> (buffer # NoBuffer)
       /\ (stop_signal # 0) <=> (level_stop # 0)

\* the first k chunks of a stream, in order
RECURSIVE ChunksUpTo(_)
ChunksUpTo(k) == IF k = 0 THEN <<>> ELSE ChunksUpTo(k - 1) \o Chunk(k)

ChunkPrefixes == {ChunksUpTo(k) : k \in 0..MaxChunks}

C39_StoredSessionNonEmpty ==
    /\ \A sid \in DOMAIN sessions : sessions[sid] # <<>>
    /\ \A c \in Callers :
          (op[c] = "stop" /\ pc[c] = "returned" /\ result[c].tag = "Ok")
          => result[c].sample_count >= 1

\* a stored session that passes the zero-length and the silence check
VoicedSession(sid) ==
    /\ sid \in DOMAIN sessions
    /\ sessions[sid] # <<>>
    /\ rms_energy(sessions[sid]) >= RmsThreshold

\* the errors of the API key check
ApiKeyErrors ==
    {TErr(<<"API key required for cloud OpenAI transcription">>),
     TErr(<<"API key required for cloud Groq transcription">>)}

\* C40: transcribe evaluates its checks in a fixed order: session lookup,
\* zero-length check, silence check, and only then model resolution: the
\* unknown-model error is returned exactly for an unknown model id on a
\* stored, non-empty, non-silent session, and the API key error exactly for a
\* cloud model without a key on such a session; on any other session the
\* outcome does not depend on the model id or the key
C40_ChecksInOrder ==
    \A sid \in SessionIds :
        LET voiced == VoicedSession(sid)
            local == TranscribeDispatch(sessions, sid, "whisper-tiny", TRUE)
        IN \A mid \in ModelIds, k \in BOOLEAN :
              LET r == TranscribeDispatch(sessions, sid, mid, k)
              IN /\ r.result = TErr(<<"Unknown model", mid>>)
                      <=> (voiced /\ mid \notin DOMAIN full_catalog)
                 /\ r.result \in ApiKeyErrors
                      <=> (/\ voiced
                           /\ engine_for_model(mid) \in {"CloudOpenAI", "CloudGroq"}
                           /\ ~k)
                 /\ ~voiced => r = local

\* a request that named an unknown model on the voiced session has failed
\* with the unknown-model error while a request on a silent session has
\* returned the empty transcript
C40_Witness ==
    /\ VoicedSession(1)
    /\ \E t, u \in Tasks :
          /\ task[t].pc = "returned"
          /\ task[t].result = TErr(<<"Unknown model", "no-such-model">>)
          /\ task[u].pc = "returned"
          /\ task[u].result = TOk("")

====
